---- MODULE Spec2Model ----
(***************************************************************************)
(* Model of the OAuth relay worker (src/src/index.ts).                     *)
(*                                                                         *)
(* Every inbound request runs handleRequest.  A request suspends at each   *)
(* `await` (the token-endpoint fetch and the key-value store's get, put    *)
(* and delete), so each awaited operation is one atomic step and the steps *)
(* of concurrent requests interleave.  The key-value store keeps with      *)
(* every entry the seconds it has left to live; the simulated clock        *)
(* advances by Tick, which ages every entry and drops the expired ones.    *)
(***************************************************************************)
EXTENDS Integers, Sequences, FiniteSets, TLC

\* ------------------------------------------------------------------ bounds
MaxProcs == 2      \* requests that may be in flight at the same time
MaxFlows == 2      \* POST /auth/authorize requests (pairs of fresh handles)
MaxCallbacks == 2  \* GET /auth/redirect requests that may store a bundle
MaxVal == 2        \* distinct token bundles the provider can issue
TickStep == 30     \* seconds the simulated clock advances in one Tick

\* ------------------------------------------------------- program constants
TokensTtl == 300   \* expirationTtl of tokens:{readKey}
TicketTtl_wrong == TokensTtl
TicketTtl == 60    \* expirationTtl of readKey:{writeKey}

Procs == 1..MaxProcs
NULL == -1                        \* searchParams.get(...) === null, store miss
BogusHandle == 0                  \* a handle no Initiate ever issued
Handles == 0..(2 * MaxFlows)      \* BogusHandle and every handle ever issued
AuthCode == 1                     \* a non-empty `code` URL parameter

\* ------------------------------------------------------------ HTTP bodies
\* A body text: JSON text of the value `val`, with or without insignificant
\* whitespace, or text that is not JSON at all.
JsonText(v, w) == [json |-> TRUE, val |-> v, ws |-> w]
Garbage == [json |-> FALSE, val |-> 0, ws |-> FALSE]
NoBody == [json |-> FALSE, val |-> NULL, ws |-> FALSE]
ErrBody == JsonText(0, FALSE)     \* e.g. {"error":"invalid_grant"}

\* tokenResponse.json(): the parsed value, or NULL when parsing throws.
JSONparse(text) == IF text.json THEN text.val ELSE NULL

JSONstringify_lossy(v) == JsonText(0, FALSE)

\* JSON.stringify(value): the canonical text, without whitespace.
JSONstringify(v) == JsonText(v, FALSE)

StatusText(s) ==
  CASE s = 200 -> "OK"
    [] s = 401 -> "Unauthorized"
    [] s = 500 -> "Internal Server Error"
    [] OTHER -> ""

FailStatuses == {401, 500}

\* The bundles the provider may send with a 200: bundle v as JSON text (the
\* odd ones pretty-printed, the even ones compact), or a body that is no JSON.
Bundles == {JsonText(v, v % 2 = 1) : v \in 1..MaxVal}

\* What the provider's token endpoint may answer to one POST; status 0 stands
\* for a fetch that rejects (network failure).
NetworkError == [status |-> 0, statusText |-> "", body |-> NoBody]
NoAnswer == [status |-> NULL, statusText |-> "", body |-> NoBody]
UpstreamAnswers ==
  {[status |-> 200, statusText |-> StatusText(200), body |-> b] :
      b \in Bundles \cup {Garbage}}
  \cup {[status |-> s, statusText |-> StatusText(s), body |-> ErrBody] :
          s \in FailStatuses}
  \cup {NetworkError}

\* ------------------------------------------------- parameters and headers
\* The value of a URL or form parameter: a fixed text or a configured value
\* (env.X), a handle, or the caller's code.
Str(text) == [text |-> text, h |-> NULL, code |-> NULL]
HandleStr(h) == [text |-> "", h |-> h, code |-> NULL]
CodeStr(c) == [text |-> "", h |-> NULL, code |-> c]

NoUrl == [endpoint |-> "", search |-> <<>>]

AuthorizeUrl_noState(readKey, writeKey) ==
  [endpoint |-> "env.AUTHORIZE_ENDPOINT",
   search |-> << <<"client_id", Str("env.CLIENT_ID")>>,
                 <<"redirect_uri", Str("env.REDIRECT_URI")>>,
                 <<"scope", Str("env.SCOPE")>> >>]

AuthorizeUrl_readKeyState(readKey, writeKey) ==
  [endpoint |-> "env.AUTHORIZE_ENDPOINT",
   search |-> << <<"client_id", Str("env.CLIENT_ID")>>,
                 <<"redirect_uri", Str("env.REDIRECT_URI")>>,
                 <<"scope", Str("env.SCOPE")>>,
                 <<"state", HandleStr(readKey)>> >>]

AuthorizeUrl_withSecret(readKey, writeKey) ==
  [endpoint |-> "env.AUTHORIZE_ENDPOINT",
   search |-> << <<"client_id", Str("env.CLIENT_ID")>>,
                 <<"client_secret", Str("env.CLIENT_SECRET")>>,
                 <<"redirect_uri", Str("env.REDIRECT_URI")>>,
                 <<"scope", Str("env.SCOPE")>>,
                 <<"state", HandleStr(writeKey)>> >>]

\* authorizeUrl: env.AUTHORIZE_ENDPOINT with the search string made of
\* authorizeParams, in the order they are appended.
AuthorizeUrl(readKey, writeKey) ==
  [endpoint |-> "env.AUTHORIZE_ENDPOINT",
   search |-> << <<"client_id", Str("env.CLIENT_ID")>>,
                 <<"redirect_uri", Str("env.REDIRECT_URI")>>,
                 <<"scope", Str("env.SCOPE")>>,
                 <<"state", HandleStr(writeKey)>> >>]

\* exchangeProof, sent form-encoded to env.TOKEN_ENDPOINT: `name` is "code"
\* for the authorization-code grant and "refresh_token" for the refresh grant.
ExchangeProof(grant, name, code) ==
  << <<"grant_type", Str(grant)>>,
     <<"client_id", Str("env.CLIENT_ID")>>,
     <<"client_secret", Str("env.CLIENT_SECRET")>>,
     <<"redirect_uri", Str("env.REDIRECT_URI")>>,
     <<name, CodeStr(code)>> >>

\* The Access-Control-Allow-Origin header: env.PLUGIN_URI, or not sent.
PluginUri == "env.PLUGIN_URI"
NoHeader == ""

\* ------------------------------------------------------------- responses
NoResp == [status |-> NULL, msg |-> "", json |-> NoBody, readKey |-> NULL,
           state |-> NULL, url |-> NoUrl, acao |-> NoHeader]

\* new Response(text, {status, headers}) with a plain-text body.
TextResponse(s, text, cors) ==
  [status |-> s, msg |-> text, json |-> NoBody, readKey |-> NULL,
   state |-> NULL, url |-> NoUrl, acao |-> IF cors THEN PluginUri ELSE NoHeader]

\* new Response(jsonText, {headers}) : status 200, JSON body, CORS header.
JsonResponse(text) ==
  [status |-> 200, msg |-> "", json |-> text, readKey |-> NULL,
   state |-> NULL, url |-> NoUrl, acao |-> PluginUri]

\* The catch-all of fetch(): any throw inside handleRequest becomes a 500.
InternalError(m) == TextResponse(500, m, TRUE)

\* ------------------------------------------------------------- the store
\* An entry holds its value and the seconds left before it expires (ttl);
\* age (seconds since the put) and wid (which put of `writes` stored it) are
\* history, never read by a request.
NoTicket == [present |-> FALSE, value |-> NULL, ttl |-> 0, age |-> 0]
NoTokens == [present |-> FALSE, value |-> NoBody, ttl |-> 0, age |-> 0, wid |-> 0]
Nothing(ns) == IF ns = "readKey" THEN NoTicket ELSE NoTokens

\* What the contract lets the next Poll(readKey) return: the bundle of the
\* latest exchange while it is fresh ("ready"), and nothing once a poll has
\* taken it ("taken") or before any exchange or after 300 s ("none").
NoExpect == [st |-> "none", body |-> NoBody, ttl |-> 0]

VARIABLES
  store,     \* hubspotOAuthStore: [readKey |-> ..., tokens |-> ...]
  ids,       \* how many identifiers generateRandomId has produced
  req,       \* per request slot: the request in flight and its locals
  out,       \* the request that the last step completed, with its response
  writes,    \* history: every put of a tokens: entry, in order
  delivered, \* history: how many polls returned each put's bundle
  expect     \* history: per readKey, what the next Poll is due

vars == <<store, ids, req, out, writes, delivered, expect>>

Idle == [kind |-> "idle", pc |-> "idle", code |-> NULL, key |-> NULL,
         up |-> NoAnswer, readKey |-> NULL, tokens |-> NoTokens,
         form |-> <<>>, due |-> NoExpect, resp |-> NoResp, trace |-> <<>>]

\* generateRandomId(): the n-th call returns a handle never returned before.
GenerateRandomId(n) == n + 1

\* The readKey that Authorize returned together with writeKey w.
ReadKeyOf(w) == w - 1

\* The handles a caller can present besides none at all: the writeKeys
\* (readKeys) issued so far and one handle that never was issued.
WriteKeys == {BogusHandle} \cup {h \in 1..ids : h % 2 = 0}
ReadKeys == {BogusHandle} \cup {h \in 1..ids : h % 2 = 1}

\* store.get(key): the entry, or nothing once it is gone or has expired.
KVget(ns, h) ==
  IF store[ns][h].present /\ store[ns][h].ttl > 0 THEN store[ns][h]
  ELSE Nothing(ns)

\* store.put(key, value, {expirationTtl}).
KVput(ns, h, entry) == [store EXCEPT ![ns][h] = entry]

KVdelete_noop(ns, h) == store

\* store.delete(key).
KVdelete(ns, h) == [store EXCEPT ![ns][h] = Nothing(ns)]

Missing_never(param) == FALSE

\* `!param`: the URL parameter is absent.
Missing(param) == param = NULL

StoreTokens_underWriteKey(readKey, writeKey, text, wid) ==
  KVput("tokens", writeKey,
        [present |-> TRUE, value |-> text, ttl |-> TokensTtl, age |-> 0,
         wid |-> wid])

StoreTokens_consuming(readKey, writeKey, text, wid) ==
  [KVput("tokens", readKey,
         [present |-> TRUE, value |-> text, ttl |-> TokensTtl, age |-> 0,
          wid |-> wid]) EXCEPT !.readKey[writeKey] = NoTicket]

StoreTokens_keepFirst(readKey, writeKey, text, wid) ==
  IF store.tokens[readKey].present THEN store
  ELSE KVput("tokens", readKey,
             [present |-> TRUE, value |-> text, ttl |-> TokensTtl, age |-> 0,
              wid |-> wid])

\* store.put(`tokens:${readKey}`, text, {expirationTtl: 300}) of the callback
\* that was called with state writeKey; wid numbers the puts.
StoreTokens(readKey, writeKey, text, wid) ==
  KVput("tokens", readKey,
        [present |-> TRUE, value |-> text, ttl |-> TokensTtl, age |-> 0,
         wid |-> wid])

UpstreamOk_any(status) == TRUE

\* `tokenResponse.status !== 200` fails the request.
UpstreamOk(status) == status = 200

Free(p) == req[p].pc = "idle"

\* No request is in flight.
Quiet == \A q \in Procs : Free(q)

InFlight(kind) == Cardinality({q \in Procs : req[q].kind = kind})

\* The request of slot p returns response r after performing ops.
Finished(p, r, ops) ==
  [req[p] EXCEPT !.pc = "done", !.resp = r, !.trace = req[p].trace \o ops]

Init ==
  /\ store = [readKey |-> [h \in Handles |-> NoTicket],
              tokens |-> [h \in Handles |-> NoTokens]]
  /\ ids = 0
  /\ req = [p \in Procs |-> Idle]
  /\ out = Idle
  /\ writes = <<>>
  /\ delivered = [w \in 1..MaxCallbacks |-> 0]
  /\ expect = [h \in Handles |-> NoExpect]

\* POST /auth/authorize
Authorize(p) ==
  /\ Free(p)
  /\ ids + 2 <= 2 * MaxFlows
  /\ LET readKey == GenerateRandomId(ids)
         writeKey == GenerateRandomId(ids + 1)
     IN /\ ids' = ids + 2
        /\ store' = KVput("readKey", writeKey,
                       [present |-> TRUE, value |-> readKey, ttl |-> TicketTtl,
                        age |-> 0])
        /\ out' = [Idle EXCEPT !.kind = "authorize", !.pc = "done",
                     !.trace = <<"put">>,
                     !.resp = [status |-> 200, msg |-> "", json |-> NoBody,
                               readKey |-> readKey, state |-> writeKey,
                               url |-> AuthorizeUrl(readKey, writeKey),
                               acao |-> PluginUri]]
  /\ UNCHANGED <<req, writes, delivered, expect>>

\* GET /auth/redirect: the URL parameters are read and checked.
RedirectStart(p, code, state) ==
  /\ Free(p)
  /\ Len(writes) + InFlight("redirect") < MaxCallbacks
  /\ LET r == [Idle EXCEPT !.kind = "redirect", !.code = code, !.key = state]
     IN IF Missing(code)
        THEN /\ out' = [r EXCEPT !.pc = "done", !.resp =
                  TextResponse(400, "Missing authorization code URL param", FALSE)]
             /\ UNCHANGED req
        ELSE IF Missing(state)
        THEN /\ out' = [r EXCEPT !.pc = "done", !.resp =
                  TextResponse(400, "Missing state URL param", FALSE)]
             /\ UNCHANGED req
        ELSE /\ req' = [req EXCEPT ![p] = [r EXCEPT !.pc = "fetch"]]
             /\ out' = Idle
  /\ UNCHANGED <<store, ids, writes, delivered, expect>>

\* await fetch(env.TOKEN_ENDPOINT, ...) with grant_type=authorization_code,
\* and the check of the answer's status.
RedirectFetch(p, ans) ==
  /\ req[p].kind = "redirect" /\ req[p].pc = "fetch"
  /\ LET r == [req[p] EXCEPT !.up = ans, !.trace = <<"fetch">>,
                  !.form = ExchangeProof("authorization_code", "code", req[p].code)]
     IN IF ans = NetworkError
        THEN /\ out' = [r EXCEPT !.pc = "done", !.resp = InternalError("fetch failed")]
             /\ req' = [req EXCEPT ![p] = Idle]
        ELSE IF ~UpstreamOk(ans.status)
        THEN /\ out' = [r EXCEPT !.pc = "done", !.resp =
                          TextResponse(ans.status, ans.statusText, FALSE)]
             /\ req' = [req EXCEPT ![p] = Idle]
        ELSE /\ req' = [req EXCEPT ![p] = [r EXCEPT !.pc = "get"]]
             /\ out' = Idle
  /\ UNCHANGED <<store, ids, writes, delivered, expect>>

\* await store.get(`readKey:${writeKey}`) and the check of what it found.
RedirectGet(p) ==
  /\ req[p].kind = "redirect" /\ req[p].pc = "get"
  /\ LET ticket == KVget("readKey", req[p].key)
         r == [req[p] EXCEPT !.trace = req[p].trace \o <<"get">>]
     IN IF Missing(ticket.value)
        THEN /\ out' = [r EXCEPT !.pc = "done", !.resp =
                          TextResponse(400, "No read key found in storage", FALSE)]
             /\ req' = [req EXCEPT ![p] = Idle]
        ELSE /\ req' = [req EXCEPT ![p] =
                          [r EXCEPT !.pc = "put", !.readKey = ticket.value]]
             /\ out' = Idle
  /\ UNCHANGED <<store, ids, writes, delivered, expect>>

\* await tokenResponse.json(), then await store.put(`tokens:${readKey}`, ...).
RedirectPut(p) ==
  /\ req[p].kind = "redirect" /\ req[p].pc = "put"
  /\ req' = [req EXCEPT ![p] = Idle]
  /\ LET tokens == JSONparse(req[p].up.body)
     IN IF tokens = NULL
        THEN /\ out' = [req[p] EXCEPT !.pc = "done",
                          !.resp = InternalError("Unexpected token")]
             /\ UNCHANGED <<store, writes, expect>>
        ELSE /\ store' = StoreTokens(req[p].readKey, req[p].key,
                                  JSONstringify(tokens), Len(writes) + 1)
             /\ writes' = Append(writes, [readKey |-> req[p].readKey,
                                          writeKey |-> req[p].key])
             /\ expect' = [expect EXCEPT ![ReadKeyOf(req[p].key)] =
                             [st |-> "ready", body |-> req[p].up.body, ttl |-> 300]]
             /\ out' = [req[p] EXCEPT !.pc = "done",
                          !.trace = req[p].trace \o <<"put">>,
                          !.resp = TextResponse(200, "Authentication successful!",
                                                FALSE)]
  /\ UNCHANGED <<ids, delivered>>

\* POST /auth/poll: the URL parameter is read and checked.
PollStart(p, readKey) ==
  /\ Free(p)
  /\ LET r == [Idle EXCEPT !.kind = "poll", !.key = readKey]
     IN IF Missing(readKey)
        THEN /\ out' = [r EXCEPT !.pc = "done", !.resp =
                          TextResponse(400, "Missing read key URL param", TRUE)]
             /\ UNCHANGED req
        ELSE /\ req' = [req EXCEPT ![p] = [r EXCEPT !.pc = "get"]]
             /\ out' = Idle
  /\ UNCHANGED <<store, ids, writes, delivered, expect>>

\* await store.get(`tokens:${readKey}`) and the check of what it found.
PollGet(p) ==
  /\ req[p].kind = "poll" /\ req[p].pc = "get"
  /\ LET tokens == KVget("tokens", req[p].key)
         r == [req[p] EXCEPT !.trace = <<"get">>, !.due = expect[req[p].key]]
     IN IF ~tokens.present
        THEN /\ out' = [r EXCEPT !.pc = "done", !.resp = TextResponse(404, "", TRUE)]
             /\ req' = [req EXCEPT ![p] = Idle]
        ELSE /\ req' = [req EXCEPT ![p] =
                          [r EXCEPT !.pc = "delete",
                                    !.tokens = [tokens EXCEPT !.ttl = 0, !.age = 0]]]
             /\ out' = Idle
  /\ expect' = [expect EXCEPT ![req[p].key] =
                  IF @.st = "ready" THEN [NoExpect EXCEPT !.st = "taken"] ELSE @]
  /\ UNCHANGED <<store, ids, writes, delivered>>

\* await store.delete(`tokens:${readKey}`), then the fetched value is returned.
PollDelete(p) ==
  /\ req[p].kind = "poll" /\ req[p].pc = "delete"
  /\ store' = KVdelete("tokens", req[p].key)
  /\ delivered' = [delivered EXCEPT ![req[p].tokens.wid] = @ + 1]
  /\ out' = [req[p] EXCEPT !.pc = "done",
               !.trace = req[p].trace \o <<"delete">>,
               !.resp = JsonResponse(req[p].tokens.value)]
  /\ req' = [req EXCEPT ![p] = Idle]
  /\ UNCHANGED <<ids, writes, expect>>

\* POST /auth/refresh: the URL parameter is read and checked.
RefreshStart(p, code) ==
  /\ Free(p)
  /\ LET r == [Idle EXCEPT !.kind = "refresh", !.code = code]
     IN IF Missing(code)
        THEN /\ out' = [r EXCEPT !.pc = "done", !.resp =
                          TextResponse(400, "Missing refresh token URL param", TRUE)]
             /\ UNCHANGED req
        ELSE /\ req' = [req EXCEPT ![p] = [r EXCEPT !.pc = "fetch"]]
             /\ out' = Idle
  /\ UNCHANGED <<store, ids, writes, delivered, expect>>

RefreshFetch_storing(p, ans) ==
  /\ req[p].kind = "refresh" /\ req[p].pc = "fetch"
  /\ req' = [req EXCEPT ![p] = Idle]
  /\ LET r == [req[p] EXCEPT !.pc = "done", !.up = ans, !.trace = <<"fetch">>,
                  !.form = ExchangeProof("refresh_token", "refresh_token",
                                         req[p].code)]
     IN out' = [r EXCEPT !.resp =
          IF ans = NetworkError THEN InternalError("fetch failed")
          ELSE IF ~UpstreamOk(ans.status)
          THEN TextResponse(ans.status, ans.statusText, TRUE)
          ELSE IF JSONparse(ans.body) = NULL THEN InternalError("Unexpected token")
          ELSE JsonResponse(JSONstringify(JSONparse(ans.body)))]
  /\ store' = IF UpstreamOk(ans.status) /\ JSONparse(ans.body) # NULL
              THEN KVput("tokens", BogusHandle,
                         [present |-> TRUE, value |-> JSONstringify(JSONparse(ans.body)),
                          ttl |-> TokensTtl, age |-> 0, wid |-> 0])
              ELSE store
  /\ UNCHANGED <<ids, writes, delivered, expect>>

\* await fetch(env.TOKEN_ENDPOINT, ...) with grant_type=refresh_token, the
\* check of the answer's status and await refreshResponse.json().
RefreshFetch(p, ans) ==
  /\ req[p].kind = "refresh" /\ req[p].pc = "fetch"
  /\ req' = [req EXCEPT ![p] = Idle]
  /\ LET r == [req[p] EXCEPT !.pc = "done", !.up = ans, !.trace = <<"fetch">>,
                  !.form = ExchangeProof("refresh_token", "refresh_token",
                                         req[p].code)]
     IN out' = [r EXCEPT !.resp =
          IF ans = NetworkError THEN InternalError("fetch failed")
          ELSE IF ~UpstreamOk(ans.status)
          THEN TextResponse(ans.status, ans.statusText, TRUE)
          ELSE IF JSONparse(ans.body) = NULL THEN InternalError("Unexpected token")
          ELSE JsonResponse(JSONstringify(JSONparse(ans.body)))]
  /\ UNCHANGED <<store, ids, writes, delivered, expect>>

\* GET / (the health check) and every other method and path.
OtherRoute(p, root) ==
  /\ Free(p)
  /\ out' = [Idle EXCEPT !.kind = IF root THEN "root" ELSE "other",
               !.pc = "done", !.resp =
               IF root
               THEN TextResponse(200, "OAuth Worker is up and running!", FALSE)
               ELSE TextResponse(404, "Page not found", TRUE)]
  /\ UNCHANGED <<store, ids, req, writes, delivered, expect>>

Aged_forever(e, none) == e

\* The clock advances by TickStep seconds; the store drops what has expired.
Aged(e, none) ==
  IF e.present /\ e.ttl > TickStep
  THEN [e EXCEPT !.ttl = e.ttl - TickStep, !.age = e.age + TickStep]
  ELSE none

Tick ==
  /\ store' = [readKey |-> [h \in Handles |-> Aged(store.readKey[h], NoTicket)],
               tokens |-> [h \in Handles |-> Aged(store.tokens[h], NoTokens)]]
  /\ expect' = [h \in Handles |->
                  IF expect[h].st # "ready" THEN expect[h]
                  ELSE IF expect[h].ttl > TickStep
                  THEN [expect[h] EXCEPT !.ttl = @ - TickStep]
                  ELSE NoExpect]
  /\ out' = Idle
  /\ UNCHANGED <<ids, req, writes, delivered>>

\* Requests are handled concurrently: their awaited steps interleave.
Next ==
  \/ \E p \in Procs : Authorize(p)
  \/ \E p \in Procs, code \in {NULL, AuthCode}, state \in {NULL} \cup WriteKeys :
        RedirectStart(p, code, state)
  \/ \E p \in Procs, ans \in UpstreamAnswers : RedirectFetch(p, ans)
  \/ \E p \in Procs : RedirectGet(p)
  \/ \E p \in Procs : RedirectPut(p)
  \/ \E p \in Procs, readKey \in {NULL} \cup ReadKeys : PollStart(p, readKey)
  \/ \E p \in Procs : PollGet(p)
  \/ \E p \in Procs : PollDelete(p)
  \/ \E p \in Procs, code \in {NULL, AuthCode} : RefreshStart(p, code)
  \/ \E p \in Procs, ans \in UpstreamAnswers : RefreshFetch(p, ans)
  \/ \E p \in Procs, root \in BOOLEAN : OtherRoute(p, root)
  \/ Tick

Spec == Init /\ [][Next]_vars

\* Requests never overlap: a request starts only when none is in flight.
SeqNext ==
  \/ \E p \in Procs : Quiet /\ Authorize(p)
  \/ \E p \in Procs, code \in {NULL, AuthCode}, state \in {NULL} \cup WriteKeys :
        Quiet /\ RedirectStart(p, code, state)
  \/ \E p \in Procs, ans \in UpstreamAnswers : RedirectFetch(p, ans)
  \/ \E p \in Procs : RedirectGet(p)
  \/ \E p \in Procs : RedirectPut(p)
  \/ \E p \in Procs, readKey \in {NULL} \cup ReadKeys : Quiet /\ PollStart(p, readKey)
  \/ \E p \in Procs : PollGet(p)
  \/ \E p \in Procs : PollDelete(p)
  \/ \E p \in Procs, code \in {NULL, AuthCode} : Quiet /\ RefreshStart(p, code)
  \/ \E p \in Procs, ans \in UpstreamAnswers : RefreshFetch(p, ans)
  \/ \E p \in Procs, root \in BOOLEAN : Quiet /\ OtherRoute(p, root)
  \/ Tick

SeqSpec == Init /\ [][SeqNext]_vars

\* Non-overlapping requests with a clock that keeps advancing: the store's
\* expiry is not postponed for ever. No request is ever obliged to arrive.
LiveSpec == Init /\ [][SeqNext]_vars /\ WF_vars(Tick)

\* ------------------------------------------------------------------ claims
Range(f) == {f[i] : i \in DOMAIN f}

\* C1: round trip.  After a callback stored the bundle B of a 200 exchange
\* for the readKey of its state, the next Poll(readKey) within 300 s returns
\* status 200 with exactly the JSON value B, and the Poll after that returns
\* 404 (requests do not overlap).
C1_RoundTrip ==
  out.kind = "poll" =>
    /\ out.due.st = "ready" =>
         /\ out.resp.status = 200
         /\ out.resp.json.json
         /\ JSONparse(out.resp.json) = JSONparse(out.due.body)
    /\ out.due.st = "taken" => out.resp.status = 404 /\ ~out.resp.json.json

C1_Witness ==
  /\ out.kind = "poll" /\ out.due.st = "taken" /\ out.resp.status = 404
  /\ \E w \in DOMAIN writes :
       writes[w].readKey = out.key /\ delivered[w] = 1 /\ Len(writes) = 1

\* C2: with non-overlapping requests no bundle is returned twice: every put
\* is returned by at most one Poll, a returned bundle is gone from the store,
\* and a Poll that follows a successful Poll with no put in between gets 404.
C2_NoRepeat ==
  /\ \A w \in DOMAIN writes :
       /\ delivered[w] <= 1
       /\ delivered[w] = 1 =>
            \A h \in Handles :
              ~(store.tokens[h].present /\ store.tokens[h].wid = w)
  /\ \A p \in Procs : req[p].kind = "poll" /\ req[p].pc = "delete" =>
       req[p].due.st = "ready"

C2_Witness == Len(writes) = 2 /\ delivered[1] = 1 /\ delivered[2] = 1

\* C3 (as claimed): at-most-once delivery also holds when polls overlap:
\* every stored bundle is returned with status 200 to at most one Poll.
C3_AtMostOnceOverlap ==
  \A w \in DOMAIN writes : delivered[w] < 2

\* C3 (as amended): when polls overlap, a Poll finds a bundle only if no
\* Poll has yet deleted and returned that bundle: two polls both return it
\* exactly when both gets run before the first delete, and a Poll whose get
\* runs after another Poll's delete of the bundle does not return it.
C3_NoDeliveryAfterDelete ==
  [][ \A p \in Procs :
        req[p].kind = "poll" /\ req[p].pc = "get" /\ req'[p].pc = "delete"
          => delivered[store.tokens[req[p].key].wid] = 0 ]_vars

C3_Witness == \E w \in DOMAIN writes : delivered[w] = 2

\* C4: a callback with code and state present, whose state has no live
\* ticket, answers 400 whatever the token endpoint answered, and stores no
\* bundle.
C4_UnknownStateIs400 ==
  ( /\ out.kind = "redirect" /\ out.code # NULL /\ out.key # NULL
    /\ out.up.status \notin {NULL, 0}
    /\ out.readKey = NULL
    /\ ~store.readKey[out.key].present )
  => out.resp.status = 400 /\ "put" \notin Range(out.trace)

\* C5: within a callback the ticket is read before the token endpoint is
\* asked: a callback that has asked the token endpoint has read a ticket.
C5_LookupBeforeExchange ==
  \A r \in {out} \cup Range(req) :
    r.kind = "redirect" /\ "fetch" \in Range(r.trace) => r.trace[1] = "get"

C7_TerminalIsFinal ==
  \A w \in DOMAIN writes :
    delivered[w] >= 1 => ~store.tokens[writes[w].readKey].present

\* C8: a ticket is single-use: at most one callback per writeKey stores a
\* bundle.
C8_TicketSingleUse ==
  \A v, w \in DOMAIN writes : writes[v].writeKey = writes[w].writeKey => v = w

\* C9: a callback reads a ticket only while fewer than 60 s have passed since
\* the Authorize that stored it, and a Poll finds a bundle only while fewer
\* than 300 s have passed since the callback that stored it.
C9_Expiry ==
  [][ /\ \A p \in Procs :
           req[p].kind = "redirect" /\ req[p].pc = "get" /\ req'[p].pc = "put"
             => store.readKey[req[p].key].age < 60
      /\ \A p \in Procs :
           req[p].kind = "poll" /\ req[p].pc = "get" /\ req'[p].pc = "delete"
             => store.tokens[req[p].key].age < 300 ]_vars

C9_Witness ==
  /\ Quiet /\ out.kind = "poll" /\ out.resp.status = 404
  /\ \E w \in DOMAIN writes : writes[w].readKey = out.key /\ delivered[w] = 0
  /\ ~store.readKey[out.key + 1].present

\* C10: a callback without code or without state, a Poll without readKey and
\* a refresh without code answer 400 and perform no store operation and no
\* token-endpoint request.
C10_MissingParameter ==
  ( \/ out.kind = "redirect" /\ (out.code = NULL \/ out.key = NULL)
    \/ out.kind = "poll" /\ out.key = NULL
    \/ out.kind = "refresh" /\ out.code = NULL )
  => out.resp.status = 400 /\ out.trace = <<>>

C10_Witness ==
  /\ out.kind = "redirect" /\ out.code # NULL /\ out.key = NULL
  /\ out.resp.status = 400

\* ---------------------------------------------------------------- C11
\* The parameter names of a search string or form, its values, and the value
\* of the parameter called name.
Names(params) == {params[i][1] : i \in DOMAIN params}
Values(params) == {params[i][2] : i \in DOMAIN params}
ParamValue(params, name) ==
  params[CHOOSE i \in DOMAIN params : params[i][1] = name][2]

\* C11: every Initiate answers 200 with a URL that carries client_id,
\* redirect_uri, scope and a state equal to the writeKey generated by this
\* request (the newest handle, used by no earlier callback), and when the
\* response is returned the store holds readKey:{writeKey}, mapping to exactly
\* the readKey of the response, with the 60 second TTL.
C11_InitiateContract ==
  (out.kind = "authorize" /\ out.pc = "done") =>
    LET search == out.resp.url.search
    IN /\ out.resp.status = 200
       /\ {"client_id", "redirect_uri", "scope", "state"} \subseteq Names(search)
       /\ ParamValue(search, "client_id") = Str("env.CLIENT_ID")
       /\ ParamValue(search, "redirect_uri") = Str("env.REDIRECT_URI")
       /\ ParamValue(search, "scope") = Str("env.SCOPE")
       /\ LET writeKey == ParamValue(search, "state").h
          IN /\ writeKey = ids
             /\ writeKey # out.resp.readKey
             /\ \A w \in DOMAIN writes : writes[w].writeKey # writeKey
             /\ ~store.tokens[out.resp.readKey].present
             /\ store.readKey[writeKey].present
             /\ store.readKey[writeKey].value = out.resp.readKey
             /\ store.readKey[writeKey].ttl = 60

\* The second Initiate has answered while the first flow's ticket is stored.
C11_Witness ==
  /\ out.kind = "authorize" /\ out.pc = "done" /\ out.resp.status = 200
  /\ ids = 4
  /\ store.readKey[2].present /\ store.readKey[4].present

\* ---------------------------------------------------------------- C12
\* C12: every response of every route and outcome, the root health check
\* alone excepted, carries Access-Control-Allow-Origin set to the configured
\* plugin origin.
C12_CorsEverywhere ==
  (out.pc = "done" /\ out.kind # "root") => out.resp.acao = "env.PLUGIN_URI"

\* ---------------------------------------------------------------- C13
\* C13: a step of a RefreshTokens request, on every outcome, leaves the store
\* as it was, and the only operation a finished refresh has issued is the
\* fetch of the token endpoint: no get, put or delete.
C13_RefreshStateless ==
  [][ ( \/ out'.kind = "refresh"
        \/ \E p \in Procs : /\ req'[p] # req[p]
                             /\ "refresh" \in {req[p].kind, req'[p].kind} )
      => /\ store' = store
         /\ Range(out'.trace) \subseteq {"fetch"}
         /\ \A p \in Procs : req'[p].kind = "refresh"
                               => Range(req'[p].trace) \subseteq {"fetch"} ]_vars

\* A refresh has answered 200 while a ticket and a bundle are stored.
C13_Witness ==
  /\ out.kind = "refresh" /\ out.pc = "done" /\ out.resp.status = 200
  /\ out.trace = <<"fetch">>
  /\ \E h \in Handles : store.readKey[h].present
  /\ \E h \in Handles : store.tokens[h].present

\* ---------------------------------------------------------------- C14
\* C14: the provider sees writeKey only: no parameter of an authorize URL and
\* no parameter of a request to the token endpoint holds a handle issued as a
\* readKey, and the only response that holds a readKey is Initiate's.
C14_ProviderSeesWriteKeyOnly ==
  \A r \in {out} \cup Range(req) :
    /\ \A v \in Values(r.resp.url.search) \cup Values(r.form) : v.h \notin ReadKeys
    /\ r.resp.readKey # NULL => r.kind = "authorize"
    /\ r.kind = "authorize" /\ r.pc = "done"
         => ParamValue(r.resp.url.search, "state").h \in WriteKeys \ {BogusHandle}

\* A callback that read its flow's readKey from the ticket has sent its form
\* to the token endpoint and answered 200, after an Initiate built a URL.
C14_Witness ==
  /\ out.kind = "redirect" /\ out.pc = "done" /\ out.resp.status = 200
  /\ out.readKey \in ReadKeys
  /\ Len(out.form) = 5

\* ---------------------------------------------------------------- C15
\* C15: CLIENT_SECRET is in no response, whatever the route and the outcome:
\* not in its text, not in a URL it returns; it is in the form of every
\* request to the token endpoint, and a form is built only for such a request.
C15_SecretOnlyInForm ==
  \A r \in {out} \cup Range(req) :
    /\ r.resp.msg # "env.CLIENT_SECRET"
    /\ Str("env.CLIENT_SECRET") \notin Values(r.resp.url.search)
    /\ "fetch" \in Range(r.trace) <=> r.form # <<>>
    /\ r.form # <<>> =>
         /\ "client_secret" \in Names(r.form)
         /\ ParamValue(r.form, "client_secret") = Str("env.CLIENT_SECRET")

\* A refresh whose form carried the secret has ended in the catch-all 500.
C15_Witness ==
  /\ out.kind = "refresh" /\ out.pc = "done" /\ out.resp.status = 500
  /\ Len(out.form) = 5
  /\ ParamValue(out.form, "client_secret") = Str("env.CLIENT_SECRET")

\* ---------------------------------------------------------------- C16
\* C16: with the clock advancing fairly, every entry a flow created, the
\* ticket readKey:{writeKey} and the bundle tokens:{readKey}, is eventually
\* absent, whether or not further requests arrive and with no sweep: the flow
\* ends delivered or expired with nothing of it left in the store.
C16_TtlCleansUp ==
  /\ \A h \in Handles :
       /\ store.readKey[h].present ~> ~store.readKey[h].present
       /\ store.tokens[h].present ~> ~store.tokens[h].present
  /\ \A w \in Handles \ {BogusHandle} :
       store.readKey[w].present
         ~> (~store.readKey[w].present /\ ~store.tokens[ReadKeyOf(w)].present)

\* A flow whose bundle was stored and never polled has expired: nothing of it
\* is left in the store.
C16_Witness ==
  /\ Len(writes) = 1 /\ delivered[1] = 0
  /\ \A h \in Handles : ~store.readKey[h].present /\ ~store.tokens[h].present
  /\ Quiet

\* ---------------------------------------------------------------- C17
\* C17: when a Poll overlaps with callbacks and with no other Poll, its
\* delete removes no bundle other than the one this Poll returns to its
\* caller: what is stored under tokens:{R} when the delete runs is the bundle
\* the Poll's get has read.
C17_PollDeletesWhatItReturned ==
  [][ ( /\ out'.kind = "poll" /\ out'.resp.status = 200
        /\ delivered[out'.tokens.wid] = 0
        /\ \A q \in Procs : req[q].kind = "poll" => req'[q] # req[q]
        /\ store.tokens[out'.key].present )
      => store.tokens[out'.key].wid = out'.tokens.wid ]_vars

\* ---------------------------------------------------------------- C18
\* The step is the store's expiry and no request's.
ClockStep == out' = Idle /\ req' = req

\* C18: flows are independent. A ticket readKey:{W} holds the readKey issued
\* with W; a bundle stored under tokens:{R}, and a bundle a Poll(R) returns,
\* was put by a callback whose state W had readKey:{W} = R; and a request
\* changes a readKey: or tokens: entry only of the flow whose handle it
\* carries.
C18_FlowsIndependent ==
  /\ [](/\ \A w \in Handles :
            store.readKey[w].present => store.readKey[w].value = ReadKeyOf(w)
        /\ \A h \in Handles :
            store.tokens[h].present =>
              /\ writes[store.tokens[h].wid].readKey = h
              /\ ReadKeyOf(writes[store.tokens[h].wid].writeKey) = h
        /\ (out.kind = "poll" /\ out.resp.status = 200) =>
              /\ writes[out.tokens.wid].readKey = out.key
              /\ ReadKeyOf(writes[out.tokens.wid].writeKey) = out.key)
  /\ [][ \A h \in Handles :
           /\ store'.readKey[h] # store.readKey[h] =>
                \/ ClockStep
                \/ out'.kind = "authorize" /\ out'.resp.state = h
           /\ store'.tokens[h] # store.tokens[h] =>
                \/ ClockStep
                \/ out'.kind = "poll" /\ out'.key = h
                \/ out'.kind = "redirect" /\ out'.key # BogusHandle
                     /\ ReadKeyOf(out'.key) = h ]_vars

\* Two flows have each had their own bundle stored and returned by a Poll.
C18_Witness ==
  /\ Len(writes) = 2 /\ writes[1].readKey # writes[2].readKey
  /\ delivered[1] = 1 /\ delivered[2] = 1
  /\ out.kind = "poll" /\ out.resp.status = 200
  /\ \E h \in Handles : store.readKey[h].present

\* ---------------------------------------------------------------- C19
\* C19: no request overwrites or deletes a ticket. While readKey:{writeKey}
\* is stored it maps to the readKey it was stored with and is no older than
\* 60 seconds; a step of a callback, a Poll, a refresh or another Initiate
\* leaves it as it is, and it goes only when its 60 second TTL lapses.
C19_TicketUntouched ==
  /\ [](\A w \in Handles :
          store.readKey[w].present =>
            /\ store.readKey[w].value = ReadKeyOf(w)
            /\ store.readKey[w].ttl + store.readKey[w].age = 60)
  /\ [][ \A w \in Handles :
           store.readKey[w].present =>
             \/ store'.readKey[w] = store.readKey[w]
             \/ /\ ClockStep
                /\ IF store'.readKey[w].present
                   THEN /\ store'.readKey[w].value = store.readKey[w].value
                        /\ store'.readKey[w].ttl < store.readKey[w].ttl
                   ELSE store.readKey[w].age + TickStep >= 60 ]_vars

\* A Poll has returned the bundle of a callback, and the ticket that callback
\* used is still stored, mapping to the Poll's readKey.
C19_Witness ==
  /\ out.kind = "poll" /\ out.resp.status = 200
  /\ store.readKey[writes[out.tokens.wid].writeKey].present
  /\ store.readKey[writes[out.tokens.wid].writeKey].value = out.key

\* ---------------------------------------------------------------- C20
\* Two callbacks carrying the same state have both stored a bundle.
Replayed == Len(writes) = 2 /\ writes[1].writeKey = writes[2].writeKey

\* C20: replay before delivery. When a second callback with the same state
\* stores its bundle before any Poll has returned the first, its put replaces
\* what is under tokens:{readKey} and starts a new 300 second TTL; from then
\* on what is stored there, which is what a Poll(readKey) reads, is the second
\* exchange's bundle, and the first exchange's bundle is never delivered.
C20_ReplayOverwrites ==
  /\ [][ ( /\ Len(writes) = 1 /\ Len(writes') = 2
           /\ writes'[2].writeKey = writes[1].writeKey )
         => LET e == store'.tokens[writes'[2].readKey]
            IN /\ e.present /\ e.wid = 2 /\ e.ttl = 300 /\ e.age = 0
               /\ JSONparse(e.value) = JSONparse(out'.up.body) ]_vars
  /\ []( (Replayed /\ store.tokens[writes[2].readKey].present)
           => /\ store.tokens[writes[2].readKey].wid = 2
              /\ store.tokens[writes[2].readKey].ttl
                   + store.tokens[writes[2].readKey].age = 300 )
  /\ [][ (Replayed /\ delivered[1] = 0) => delivered'[1] = 0 ]_vars

\* After a replay that preceded every Poll, a Poll has returned the second
\* exchange's bundle and the first exchange's bundle was returned to nobody.
C20_Witness ==
  /\ Replayed /\ delivered[1] = 0 /\ delivered[2] = 1
  /\ out.kind = "poll" /\ out.resp.status = 200 /\ out.tokens.wid = 2
  /\ ~store.tokens[out.key].present

====
